---- MODULE Spec2Model ----
(***************************************************************************)
(* Model of 统一视频方向.py: a batch driver that probes every video file of  *)
(* the input directory with ffprobe, transcodes each one onto a fixed       *)
(* canvas with ffmpeg, and concatenates the successful outputs.             *)
(*                                                                          *)
(* Text is modelled as a sequence of one-character strings, a path as a     *)
(* sequence of components, a component as a sequence of tokens.  Python     *)
(* exceptions are modelled as outcomes: a call either returns or raises.    *)
(***************************************************************************)
EXTENDS Integers, Sequences, FiniteSets, TLC

\* ------------------------------------------------------------- bounds
\* The largest number of entries in the listing of INPUT_DIR.
MaxFiles == 2

\* The largest number of runs of the program, one after the other.
MaxRuns == 2

\* --------------------------------------------------- configuration area
INPUT_DIR == <<".">>
\* "processed_temp"
TEMP_DIR ==
    <<"p", "r", "o", "c", "e", "s", "s", "e", "d", "_", "t", "e", "m", "p">>
\* "final_merged_video.mp4"
OUTPUT_FILE ==
    <<"f", "i", "n", "a", "l", "_", "m", "e", "r", "g", "e", "d", "_",
      "v", "i", "d", "e", "o", ".", "m", "p", "4">>
VIDEO_EXTS ==
    <<<<"m", "p", "4">>, <<"m", "o", "v">>, <<"a", "v", "i">>,
      <<"m", "k", "v">>, <<"f", "l", "v">>, <<"t", "s">>>>
TARGET_WIDTH == 1920
TARGET_HEIGHT == 1080

\* The working directory of the process, which os.path.abspath prefixes.
Cwd == <<"cwd">>

\* ------------------------------------------------------ text primitives
\* A text is a sequence of one-character strings over Latin-1, the
\* characters a string of this module can hold; a file name is a text too.
DigitChars == <<"0", "1", "2", "3", "4", "5", "6", "7", "8", "9">>

\* The characters str.isspace() is true of, which str.strip() removes:
\* space, \t, \n, \v, \f, \r, the separators 0x1c to 0x1f, the next-line
\* character 0x85 and the no-break space 0xa0.
Whitespace ==
    {" ", "\t", "\n", "", "\f", "\r", "", "", "", "",
     "", " "}

IsDigit(c) == \E d \in 1..Len(DigitChars) : DigitChars[d] = c

DigitValue(c) == (CHOOSE d \in 1..Len(DigitChars) : DigitChars[d] = c) - 1

\* str.strip(): drops the leading and the trailing whitespace.
RECURSIVE LStrip(_)
LStrip(s) ==
    IF s # <<>> /\ Head(s) \in Whitespace THEN LStrip(Tail(s)) ELSE s

RECURSIVE RStrip(_)
RStrip(s) ==
    IF s # <<>> /\ s[Len(s)] \in Whitespace
    THEN RStrip(SubSeq(s, 1, Len(s) - 1))
    ELSE s

Strip(s) == RStrip(LStrip(s))

\* 'x' in dim
Contains(s, c) == \E i \in 1..Len(s) : s[i] = c

\* str.split(sep) for a one-character separator: the fields between the
\* separators, empty fields included.
RECURSIVE Split(_, _)
Split(s, sep) ==
    IF ~Contains(s, sep)
    THEN <<s>>
    ELSE LET i == CHOOSE k \in 1..Len(s) :
                      s[k] = sep /\ \A j \in 1..(k - 1) : s[j] # sep
         IN  <<SubSeq(s, 1, i - 1)>> \o Split(SubSeq(s, i + 1, Len(s)), sep)

\* The whitespace int() skips around a number: that of str.strip() without
\* the separators 0x1c to 0x1f, which int() rejects.
IntWhitespace == Whitespace \ {"", "", "", ""}

RECURSIVE IntLStrip(_)
IntLStrip(s) ==
    IF s # <<>> /\ Head(s) \in IntWhitespace THEN IntLStrip(Tail(s)) ELSE s

RECURSIVE IntRStrip(_)
IntRStrip(s) ==
    IF s # <<>> /\ s[Len(s)] \in IntWhitespace
    THEN IntRStrip(SubSeq(s, 1, Len(s) - 1))
    ELSE s

IntStrip(s) == IntRStrip(IntLStrip(s))

\* sys.get_int_max_str_digits(): the most digits int() converts.
MaxStrDigits == 4300

\* int(text) accepts surrounding whitespace, an optional sign and decimal
\* digits, with single underscores between digits, MaxStrDigits digits at
\* most; anything else raises ValueError.
Unsigned(t) == IF t # <<>> /\ Head(t) \in {"+", "-"} THEN Tail(t) ELSE t

IntParses(text) ==
    LET body == Unsigned(IntStrip(text))
    IN  /\ body # <<>>
        /\ Cardinality({i \in 1..Len(body) : IsDigit(body[i])}) <= MaxStrDigits
        /\ \A i \in 1..Len(body) :
              \/ IsDigit(body[i])
              \/ /\ body[i] = "_"
                 /\ 1 < i /\ i < Len(body)
                 /\ IsDigit(body[i - 1]) /\ IsDigit(body[i + 1])

RECURSIVE DigitsValue(_)
DigitsValue(body) ==
    IF body = <<>>
    THEN 0
    ELSE IF body[Len(body)] = "_"
    THEN DigitsValue(SubSeq(body, 1, Len(body) - 1))
    ELSE 10 * DigitsValue(SubSeq(body, 1, Len(body) - 1))
         + DigitValue(body[Len(body)])

IntValue(text) ==
    LET t == IntStrip(text)
        v == DigitsValue(Unsigned(t))
    IN  IF t # <<>> /\ Head(t) = "-" THEN 0 - v ELSE v

\* f"{n:04d}": decimal digits, zero-padded on the left to four places.
RECURSIVE Decimal(_)
Decimal(n) ==
    IF n < 10
    THEN <<DigitChars[n + 1]>>
    ELSE Decimal(n \div 10) \o <<DigitChars[(n % 10) + 1]>>

RECURSIVE ZeroPad(_, _)
ZeroPad(s, width) == IF Len(s) >= width THEN s ELSE ZeroPad(<<"0">> \o s, width)

Format04d(n) == ZeroPad(Decimal(n), 4)

\* -------------------------------------------------------- path primitives
\* os.path.join(directory, name)
PathJoin(dir, name) == <<dir, name>>

\* os.path.abspath: prefixes the working directory, drops "." components.
Abspath(p) == <<Cwd>> \o SelectSeq(p, LAMBDA c : c # <<".">>)

\* str.replace("\\", "/") on every token of a path.
ReplaceBackslash(p) ==
    [i \in 1..Len(p) |->
        [j \in 1..Len(p[i]) |-> IF p[i][j] = "\\" THEN "/" ELSE p[i][j]]]

\* os.path.basename
Basename(p) == p[Len(p)]

\* The name of a directory entry with the given stem and extension.
FileName(stem, ext) == stem \o <<".">> \o ext

\* glob's match of a name against "*.ext": the name ends with ".ext", and
\* does not begin with a dot, which "*" does not match.
MatchesExt(name, ext) ==
    LET suffix == <<".">> \o ext
    IN  /\ Len(name) >= Len(suffix)
        /\ SubSeq(name, Len(name) - Len(suffix) + 1, Len(name)) = suffix
        /\ name[1] # "."

\* ------------------------------------------------------ get_encoding_args
common_args ==
    <<"-r", "30", "-video_track_timescale", "15360", "-c:a", "aac",
      "-ar", "44100", "-ac", "2", "-b:a", "192k", "-y">>

nvenc_args == <<"-c:v", "h264_nvenc", "-preset", "p4", "-cq", "26", "-rc", "vbr">>

x264_args == <<"-c:v", "libx264", "-preset", "fast", "-crf", "23">>

\* A slip that tests for the software choice and falls through to NVENC.
get_encoding_args_inverted(mode) ==
    IF mode = <<"1">> THEN x264_args \o common_args ELSE nvenc_args \o common_args

get_encoding_args(mode) ==
    IF mode = <<"2">> THEN nvenc_args \o common_args ELSE x264_args \o common_args

\* --------------------------------------------------- get_video_dimensions
\* What running ffprobe on a file does: kind "oserror" (the tool cannot be
\* launched), "exit_nonzero" (check=True raises CalledProcessError) or
\* "stdout" (exit status 0, with the captured text in out).
\*
\* The value returned: the tuple (0, 0), or a lazy map object over the text
\* fields, whose int() conversions run only when the caller iterates it.
Sentinel == [lazy |-> FALSE, fields |-> <<>>, pair |-> <<0, 0>>]

LazyMap(fields) == [lazy |-> TRUE, fields |-> fields, pair |-> <<>>]

get_video_dimensions(probe) ==
    IF probe.kind = "stdout"
    THEN LET dim == Strip(probe.out)
         IN  IF Contains(dim, "x") THEN LazyMap(Split(dim, "x")) ELSE Sentinel
    ELSE Sentinel

\* Whether get_video_dimensions printed its "cannot read" notice (line 69).
ProbeNotice(probe) == probe.kind # "stdout"

\* width, height = <returned value> (line 76): iterating the map converts
\* the fields one by one; a field int() rejects, or a third field, raises
\* ValueError in the caller.
UnpackPair(ret) ==
    IF ~ret.lazy
    THEN [raised |-> FALSE, width |-> ret.pair[1], height |-> ret.pair[2]]
    ELSE IF /\ Len(ret.fields) = 2
            /\ IntParses(ret.fields[1])
            /\ IntParses(ret.fields[2])
         THEN [raised |-> FALSE,
               width  |-> IntValue(ret.fields[1]),
               height |-> IntValue(ret.fields[2])]
         ELSE [raised |-> TRUE, width |-> 0, height |-> 0]

\* ----------------------------------------------------- process_video_file
\* if width == 0: return False (line 77)
ProbeGate(width) == width = 0

\* A slip that exchanges the canvas width and height.
scale_filter_swapped ==
    <<"scale=">> \o Decimal(TARGET_HEIGHT) \o <<":">> \o Decimal(TARGET_WIDTH)
    \o <<":force_original_aspect_ratio=decrease,", "pad=">>
    \o Decimal(TARGET_HEIGHT) \o <<":">> \o Decimal(TARGET_WIDTH)
    \o <<":(ow-iw)/2:(oh-ih)/2,", "setsar=1">>

scale_filter ==
    <<"scale=">> \o Decimal(TARGET_WIDTH) \o <<":">> \o Decimal(TARGET_HEIGHT)
    \o <<":force_original_aspect_ratio=decrease,", "pad=">>
    \o Decimal(TARGET_WIDTH) \o <<":">> \o Decimal(TARGET_HEIGHT)
    \o <<":(ow-iw)/2:(oh-ih)/2,", "setsar=1">>

transpose_filter == <<"transpose=2">>

\* A slip that takes square input for portrait.
BuildFilters_ge(width, height) ==
    LET is_portrait == height >= width
    IN  (IF is_portrait THEN <<transpose_filter>> ELSE <<>>) \o <<scale_filter>>

\* Lines 80-97: the filter chain for the probed dimensions.
BuildFilters(width, height) ==
    LET is_portrait == height > width
    IN  (IF is_portrait THEN <<transpose_filter>> ELSE <<>>) \o <<scale_filter>>

\* ",".join(filters)
RECURSIVE JoinComma(_)
JoinComma(filters) ==
    IF filters = <<>> THEN <<>>
    ELSE IF Len(filters) = 1 THEN filters[1]
    ELSE filters[1] \o <<",">> \o JoinComma(Tail(filters))

\* One invocation of an external tool, as the log keeps it.
Invocation(tool, input, vf, args, output) ==
    [tool |-> tool, input |-> input, vf |-> vf, args |-> args, output |-> output]

NoFilters == <<>>

\* A slip that drops check=True, so that every exit counts as success.
TranscodeSucceeded_any(trans) == trans \in {"exit0", "exit1_partial", "exit1_untouched"}

\* Whether the transcoder exit is accepted as success (check=True, lines
\* 107-112).
TranscodeSucceeded(trans) == trans = "exit0"

\* The whole call process_video_file(input_file, output_path, encoding_args)
\* for a directory entry with the given probe and transcode behaviour.
\*   ret        "True", "False", or the exception that leaves the function
\*   probed     what get_video_dimensions returned
\*   planned    whether the orientation test and the filter chain were reached
\*   invoked    the external invocations that ran, in order
\*   transcodes the number of times line 107 was reached
\*   wrote      what the transcoder left at output_path: "complete",
\*              "partial" or "nothing"
process_video_file(entry, output_path, encoding_args) ==
    LET input_file == PathJoin(INPUT_DIR, entry.name)
        probed     == get_video_dimensions(entry.probe)
        probeCall  == IF entry.probe.kind = "oserror"
                      THEN <<>>
                      ELSE <<Invocation("ffprobe", input_file, NoFilters, <<>>, <<>>)>>
        dims       == UnpackPair(probed)
        filters    == BuildFilters(dims.width, dims.height)
        cmd        == Invocation("ffmpeg", input_file, JoinComma(filters),
                                 encoding_args, output_path)
        base       == [probed |-> probed, width |-> dims.width,
                       height |-> dims.height, notice |-> ProbeNotice(entry.probe)]
    IN  IF dims.raised
        THEN base @@ [ret |-> "ValueError", planned |-> FALSE, filters |-> <<>>,
                      invoked |-> probeCall, transcodes |-> 0,
                      wrote |-> "nothing"]
        ELSE IF ProbeGate(dims.width)
        THEN base @@ [ret |-> "False", planned |-> FALSE, filters |-> <<>>,
                      invoked |-> probeCall, transcodes |-> 0,
                      wrote |-> "nothing"]
        ELSE IF entry.trans = "oserror"
        THEN base @@ [ret |-> "OSError", planned |-> TRUE, filters |-> filters,
                      invoked |-> probeCall, transcodes |-> 1,
                      wrote |-> "nothing"]
        ELSE base @@ [ret     |-> IF TranscodeSucceeded(entry.trans)
                                  THEN "True" ELSE "False",
                      planned |-> TRUE,
                      filters |-> filters,
                      invoked |-> probeCall \o <<cmd>>,
                      transcodes |-> 1,
                      wrote   |-> CASE entry.trans = "exit0" -> "complete"
                                    [] entry.trans = "exit1_partial" -> "partial"
                                    [] OTHER -> "nothing"]

\* ------------------------------------------------------------ environment
\* Captured ffprobe output for the clips of the input directory.
Text_1280x720 == <<"1", "2", "8", "0", "x", "7", "2", "0", "\n">>
Text_720x1280 == <<"7", "2", "0", "x", "1", "2", "8", "0", "\n">>
Text_1280x0 == <<"1", "2", "8", "0", "x", "0", "\n">>
Text_0x720 == <<"0", "x", "7", "2", "0", "\n">>
Text_0x0 == <<"0", "x", "0", "\n">>
Text_NA == <<"N", "/", "A", "x", "N", "/", "A", "\n">>
Text_TwoLines ==
    <<"1", "2", "8", "0", "x", "7", "2", "0", "\n",
      "1", "2", "8", "0", "x", "7", "2", "0", "\n">>
Text_Empty == <<>>

Stdout(text) == [kind |-> "stdout", out |-> text]
ProbeFails(kind) == [kind |-> kind, out |-> <<>>]

\* What the tools do with a clip: the ffprobe behaviour and, where the
\* transcoder can be reached, the ffmpeg behaviour ("exit0", "exit1_partial":
\* non-zero exit leaving a partial output, "exit1_untouched": non-zero exit
\* before the output is opened, "oserror": the tool cannot be launched).
Clips ==
    {[probe |-> Stdout(Text_1280x720), trans |-> t] :
        t \in {"exit0", "exit1_partial", "exit1_untouched", "oserror"}}
    \cup {[probe |-> Stdout(Text_720x1280), trans |-> "exit0"],
          [probe |-> Stdout(Text_1280x0), trans |-> "exit1_untouched"]}
    \cup {[probe |-> p, trans |-> "exit1_untouched"] :
            p \in {Stdout(Text_0x720), Stdout(Text_0x0), Stdout(Text_NA),
                   Stdout(Text_TwoLines), Stdout(Text_Empty),
                   ProbeFails("exit_nonzero"), ProbeFails("oserror")}}

ClipNames ==
    {FileName(<<"a">>, VIDEO_EXTS[1]), FileName(<<"b">>, VIDEO_EXTS[1]),
     FileName(<<"c">>, VIDEO_EXTS[2])}

\* A clip whose name begins with a dot, as ".h.mp4".
HiddenEntry ==
    [name |-> FileName(<<".", "h">>, VIDEO_EXTS[1]),
     probe |-> Stdout(Text_1280x720), trans |-> "exit0", made |-> "input"]

\* A directory entry: its name, the tool behaviour on it, and how it came to
\* be there ("input": a clip; "stale": a merged file left by an earlier run;
\* "merged", "partial": written by this run's concatenation).
ClipEntries ==
    {[name |-> n, probe |-> c.probe, trans |-> c.trans, made |-> "input"] :
        n \in ClipNames, c \in Clips}

OutputEntry(made) ==
    [name |-> OUTPUT_FILE, probe |-> Stdout(Text_1280x720), trans |-> "exit0",
     made |-> made]

\* The listings of INPUT_DIR, in the order the file system enumerates them:
\* no name twice.
Listings ==
    UNION {{l \in [1..n -> ClipEntries
                               \cup {HiddenEntry, OutputEntry("stale")}] :
              \A i, j \in 1..n : i # j => l[i].name # l[j].name} :
           n \in 0..MaxFiles}

\* The scratch directory: whether it exists, and its files.
ScratchFile(name, src, state) == [name |-> name, src |-> src, state |-> state]

temp_name(index) ==
    <<"p", "r", "o", "c", "e", "s", "s", "e", "d", "_">>
    \o Format04d(index) \o <<".", "m", "p", "4">>

NoScratch == [exists |-> FALSE, files |-> {}]
EmptyScratch == [exists |-> TRUE, files |-> {}]
StaleScratch ==
    [exists |-> TRUE,
     files  |-> {ScratchFile(temp_name(0), <<"earlier run">>, "stale"),
                 ScratchFile(temp_name(1), <<"earlier run">>, "stale")}]

NoList == [state |-> "absent", lines |-> <<>>]
StaleList == [state |-> "stale", lines |-> <<>>]

\* What the user types at the prompt.
RawChoices == {<<"1">>, <<"2">>, <<>>, <<"9">>, <<"\f", "2", " ">>}

\* What input() meets: a line of text, or the end of the standard input.
PromptAnswers ==
    {[kind |-> "text", raw |-> r] : r \in RawChoices}
    \cup {[kind |-> "eof", raw |-> <<>>]}

\* ------------------------------------------------------------------ state
VARIABLES
    pc,                     \* where main is: "input", "reset", "scan",
                            \* "files", "merge", "done"
    dir,                    \* the listing of INPUT_DIR
    scratch,                \* TEMP_DIR
    list_file,              \* TEMP_DIR/file_list.txt
    choice,                 \* main's local: the stripped input
    current_encoding_args,  \* main's local
    valid_files,            \* main's local: the manifest lines
    ext_i,                  \* position of the outer loop in VIDEO_EXTS
    files,                  \* main's local: the candidates of this extension
    file_i,                 \* position of the inner loop in files
    calls,                  \* log: external invocations, in order
    attempts,               \* log: the process_video_file calls, in order
    outcome,                \* "running", "returned" or "raised" (of main)
    merge_ret,              \* what merge_videos gave its caller
    console,                \* the notices printed
    fs_ops,                 \* log: the file-system operations of this run
    earlier,                \* log: the runs that ended before this one
    prompt                  \* input() of line 142: "pending", "answered",
                            \* or "eof" when it raised EOFError

vars == <<pc, dir, scratch, list_file, choice, current_encoding_args,
          valid_files, ext_i, files, file_i, calls, attempts, outcome,
          merge_ret, console, fs_ops, earlier, prompt>>

\* The state a first run starts in, for a set of possible listings.
Start(listings) ==
    /\ pc = "input"
    /\ dir \in listings
    /\ \E stale \in BOOLEAN :
          /\ scratch = IF stale THEN StaleScratch ELSE NoScratch
          /\ list_file = IF stale THEN StaleList ELSE NoList
    /\ choice = <<>>
    /\ current_encoding_args = <<>>
    /\ valid_files = <<>>
    /\ ext_i = 1
    /\ files = <<>>
    /\ file_i = 1
    /\ calls = <<>>
    /\ attempts = <<>>
    /\ outcome = "running"
    /\ merge_ret = "not called"
    /\ console = <<>>
    /\ fs_ops = <<>>
    /\ earlier = <<>>
    /\ prompt = "pending"

Init == Start(Listings)

\* ------------------------------------------------------- main's helpers
\* A slip that forgets to leave out the final output.
Glob_unfiltered(listing, ext) ==
    SelectSeq(listing, LAMBDA e : MatchesExt(e.name, ext))

\* Lines 158-159: the entries "*.ext" matches, in enumeration order, without
\* the one that is the final output.
Glob(listing, ext) ==
    SelectSeq(listing,
              LAMBDA e : /\ MatchesExt(e.name, ext)
                         /\ Abspath(PathJoin(INPUT_DIR, e.name))
                               # Abspath(<<OUTPUT_FILE>>))

\* A slip that gives every output the same name.
TempIndex_zero(manifest) == Len(manifest) - Len(manifest)

\* An off-by-one slip in the output index.
TempIndex_next(manifest) == Len(manifest) + 1

\* Line 162: the index in the output name is len(valid_files).
TempIndex(manifest) == Len(manifest)

\* Line 163
OutputPath(index) == PathJoin(TEMP_DIR, temp_name(index))

\* Lines 167-168: the manifest line for an output path.
ManifestLine(output_path) ==
    [directive |-> "file", path |-> ReplaceBackslash(Abspath(output_path))]

\* A slip that puts the newest line first.
AppendEntry_front(manifest, line) == <<line>> \o manifest

\* Line 168: valid_files.append(...)
AppendEntry(manifest, line) == Append(manifest, line)

\* A slip that ends the outer loop after the first extension.
ScanFinished_early(i) == i > 1

\* Line 157: the outer loop is over when VIDEO_EXTS is exhausted.
ScanFinished(i) == i > Len(VIDEO_EXTS)

\* Lines 149-151: shutil.rmtree if the directory exists, then os.makedirs.
ResetTree(scr) == EmptyScratch

\* A slip that leaves the old final output where it is.
RemoveOutput_keep(listing) == listing

\* Line 117: os.remove(output_file) if it exists.
RemoveOutput(listing) == SelectSeq(listing, LAMBDA e : e.name # OUTPUT_FILE)

\* ffmpeg -y writing output_path inside the scratch directory.
WriteScratch(scr, output_path, src, state) ==
    [scr EXCEPT !.files =
        {f \in scr.files : f.name # Basename(output_path)}
        \cup {ScratchFile(Basename(output_path), src, state)}]

ListPath ==
    PathJoin(TEMP_DIR,
             <<"f", "i", "l", "e", "_", "l", "i", "s", "t", ".", "t", "x", "t">>)

OutputExists(listing) == \E i \in 1..Len(listing) : listing[i].name = OUTPUT_FILE

\* The listing with an entry put at position k + 1.
InsertAt(listing, k, e) ==
    SubSeq(listing, 1, k) \o <<e>> \o SubSeq(listing, k + 1, Len(listing))

\* What the concatenation invocation can do.
ConcatExits == {"exit0", "exit1_partial", "exit1_untouched", "oserror"}

\* ---------------------------------------------------------------- actions
\* Lines 142-145: read the mode, select the encoder parameters.  At the end
\* of the standard input input() raises EOFError, which nothing catches:
\* main ends there, before get_encoding_args and the scratch reset.
ReadChoice ==
    /\ pc = "input"
    /\ \E answer \in PromptAnswers :
          IF answer.kind = "eof"
          THEN /\ prompt' = "eof"
               /\ console' = Append(console, "traceback")
               /\ outcome' = "raised"
               /\ pc' = "done"
               /\ UNCHANGED <<choice, current_encoding_args>>
          ELSE /\ prompt' = "answered"
               /\ choice' = Strip(answer.raw)
               /\ current_encoding_args' = get_encoding_args(Strip(answer.raw))
               /\ console' = Append(console,
                                    IF get_encoding_args(Strip(answer.raw))[2]
                                          = "h264_nvenc"
                                    THEN "gpu enabled" ELSE "cpu enabled")
               /\ outcome' = outcome
               /\ pc' = "reset"
    /\ UNCHANGED <<earlier, fs_ops, dir, scratch, list_file, valid_files,
                   ext_i, files, file_i, calls, attempts, merge_ret>>

\* Lines 149-154: replace the scratch directory, start an empty manifest.
ResetScratch ==
    /\ pc = "reset"
    /\ scratch' = ResetTree(scratch)
    /\ list_file' = NoList
    /\ fs_ops' = fs_ops
          \o (IF scratch.exists THEN <<"rmtree scratch">> ELSE <<>>)
          \o <<"makedirs scratch">>
    /\ valid_files' = <<>>
    /\ ext_i' = 1
    /\ pc' = "scan"
    /\ UNCHANGED <<prompt, earlier, dir, choice, current_encoding_args,
                   files, file_i, calls, attempts, outcome, merge_ret,
                   console>>

\* Lines 157-159: the next extension's candidates.
GlobExt ==
    /\ pc = "scan"
    /\ ~ScanFinished(ext_i)
    /\ files' = Glob(dir, VIDEO_EXTS[ext_i])
    /\ file_i' = 1
    /\ IF Glob(dir, VIDEO_EXTS[ext_i]) = <<>>
       THEN pc' = "scan" /\ ext_i' = ext_i + 1
       ELSE pc' = "files" /\ ext_i' = ext_i
    /\ UNCHANGED <<prompt, earlier, fs_ops, dir, scratch, list_file, choice,
                   current_encoding_args, valid_files, calls, attempts,
                   outcome, merge_ret, console>>

\* Lines 161-168: one iteration of the inner loop, the call of
\* process_video_file included.  An exception leaving process_video_file is
\* caught nowhere and ends main.
ProcessFile ==
    /\ pc = "files"
    /\ LET entry       == files[file_i]
           output_path == OutputPath(TempIndex(valid_files))
           r           == process_video_file(entry, output_path,
                                             current_encoding_args)
           raised      == r.ret \in {"ValueError", "OSError"}
       IN  /\ attempts' = Append(attempts,
                                 [entry |-> entry, output_path |-> output_path,
                                  result |-> r])
           /\ calls' = calls \o r.invoked
           /\ scratch' = IF r.wrote = "nothing"
                         THEN scratch
                         ELSE WriteScratch(scratch, output_path, entry.name, r.wrote)
           /\ console' = console
                  \o (IF r.notice THEN <<"probe unreadable">> ELSE <<>>)
                  \o (IF r.planned THEN <<"processing">> ELSE <<>>)
                  \o (IF r.ret = "True" THEN <<"transcoded">> ELSE <<>>)
                  \o (IF r.ret = "False" /\ r.planned THEN <<"failed">> ELSE <<>>)
                  \o (IF raised THEN <<"traceback">> ELSE <<>>)
           /\ valid_files' = IF r.ret = "True"
                             THEN AppendEntry(valid_files, ManifestLine(output_path))
                             ELSE valid_files
           /\ IF raised
              THEN /\ pc' = "done"
                   /\ outcome' = "raised"
                   /\ UNCHANGED <<ext_i, file_i>>
              ELSE /\ outcome' = outcome
                   /\ IF file_i < Len(files)
                      THEN pc' = "files" /\ file_i' = file_i + 1 /\ ext_i' = ext_i
                      ELSE pc' = "scan" /\ file_i' = file_i /\ ext_i' = ext_i + 1
    /\ UNCHANGED <<prompt, earlier, fs_ops, dir, list_file, choice,
                   current_encoding_args, files, merge_ret>>

\* Lines 171-173: nothing to merge.
EmptyManifest ==
    /\ pc = "scan"
    /\ ScanFinished(ext_i)
    /\ valid_files = <<>>
    /\ console' = Append(console, "no videos found")
    /\ outcome' = "returned"
    /\ pc' = "done"
    /\ UNCHANGED <<prompt, earlier, fs_ops, dir, scratch, list_file, choice,
                   current_encoding_args, valid_files, ext_i, files, file_i,
                   calls, attempts, merge_ret>>

\* Lines 175-176: write the list file.
WriteList ==
    /\ pc = "scan"
    /\ ScanFinished(ext_i)
    /\ valid_files # <<>>
    /\ list_file' = [state |-> "written", lines |-> valid_files]
    /\ fs_ops' = Append(fs_ops, "write list")
    /\ pc' = "merge"
    /\ UNCHANGED <<prompt, earlier, dir, scratch, choice,
                   current_encoding_args, valid_files, ext_i, files, file_i,
                   calls, attempts, outcome, merge_ret, console>>

\* Lines 179-181: merge_videos (lines 114-131) and the closing hint.  The
\* concatenation exits zero, exits non-zero (CalledProcessError, caught at
\* line 130) or cannot be launched (OSError, caught nowhere).
Merge ==
    /\ pc = "merge"
    /\ \E exit \in ConcatExits :
          LET removed == RemoveOutput(dir)
              cmd     == Invocation("ffmpeg -f concat", ListPath, NoFilters,
                                    <<"-safe", "0", "-c", "copy">>,
                                    <<OUTPUT_FILE>>)
          IN  /\ \/ /\ exit \in {"exit1_untouched", "oserror"}
                    /\ dir' = removed
                 \/ /\ exit \in {"exit0", "exit1_partial"}
                    /\ \E k \in 0..Len(removed) :
                          dir' = InsertAt(removed, k,
                                          OutputEntry(IF exit = "exit0"
                                                      THEN "merged" ELSE "partial"))
              /\ calls' = IF exit = "oserror" THEN calls ELSE Append(calls, cmd)
              /\ merge_ret' = IF exit = "oserror" THEN "OSError" ELSE "None"
              /\ outcome' = IF exit = "oserror" THEN "raised" ELSE "returned"
              /\ console' = console \o <<"merging">>
                     \o (CASE exit = "exit0" -> <<"merge done", "hint">>
                           [] exit = "oserror" -> <<"traceback">>
                           [] OTHER -> <<"merge failed", "hint">>)
    /\ fs_ops' = IF OutputExists(dir)
                 THEN Append(fs_ops, "remove output") ELSE fs_ops
    /\ pc' = "done"
    /\ UNCHANGED <<prompt, earlier, scratch, list_file, choice,
                   current_encoding_args, valid_files, ext_i, files, file_i,
                   attempts>>

Next ==
    \/ ReadChoice
    \/ ResetScratch
    \/ GlobExt
    \/ ProcessFile
    \/ EmptyManifest
    \/ WriteList
    \/ Merge

Spec == Init /\ [][Next]_vars

\* ------------------------------------------- filter planning, many sizes
\* The widths and heights ffprobe reports in the listings of SpecPlan.
PlanSizes == {1, 720, 1080, 1280, 1920, 2160, 3840}

DimsText(w, h) == Decimal(w) \o <<"x">> \o Decimal(h) \o <<"\n">>

\* Sizes as int() still reads them: behind a form feed, with underscores
\* between the digits; and three it rejects, with two underscores in a row,
\* with the separator 0x1c behind the digits, and with one digit more than
\* MaxStrDigits.
PaddedTexts ==
    {<<"\f", "7", "2", "0", "x", "1", "2", "8", "0", "\n">>,
     <<"1", "_", "2", "8", "0", "x", "7", "_", "2", "0", "\n">>,
     <<"7", "2", "0", "x", "1", "_", "2", "8", "0", " ", "\n">>,
     <<"1", "_", "_", "2", "8", "0", "x", "7", "2", "0", "\n">>,
     <<"1", "2", "8", "0", "", "x", "7", "2", "0", "\n">>,
     [i \in 1..(MaxStrDigits + 1) |-> "1"] \o <<"x", "7", "2", "0", "\n">>}

\* One clip a.mp4 of any of these sizes, transcoded with or without
\* success, or no clip at all.
PlanListings ==
    {<<>>}
    \cup {<<[name |-> FileName(<<"a">>, VIDEO_EXTS[1]),
             probe |-> Stdout(DimsText(w, h)),
             trans |-> t, made |-> "input"]>> :
            w \in PlanSizes, h \in PlanSizes, t \in {"exit0", "exit1_partial"}}
    \cup {<<[name |-> FileName(<<"a">>, VIDEO_EXTS[1]), probe |-> Stdout(x),
             trans |-> "exit0", made |-> "input"]>> : x \in PaddedTexts}

InitPlan == Start(PlanListings)

SpecPlan == InitPlan /\ [][Next]_vars

\* ----------------------------------------------------- running it again
\* Line 183-184: the program is started again in the directory the last run
\* left: the clips as they were, the scratch directory, the list file and
\* the final output as the last run left them, all of them now files of an
\* earlier run.
AsStale(entry) ==
    IF entry.name = OUTPUT_FILE THEN OutputEntry("stale") ELSE entry

LeftBy(run_scratch) ==
    [exists |-> run_scratch.exists,
     files  |-> {ScratchFile(f.name, f.src, "stale") : f \in run_scratch.files}]

Rerun ==
    /\ pc = "done"
    /\ Len(earlier) + 1 < MaxRuns
    /\ earlier' = Append(earlier,
                         [manifest  |-> valid_files,
                          successes |-> [k \in 1..Len(valid_files) |->
                                           CHOOSE f \in scratch.files :
                                              valid_files[k].path
                                                 = <<Cwd, TEMP_DIR, f.name>>],
                          outcome   |-> outcome,
                          reset     |-> \E i \in 1..Len(fs_ops) :
                                           fs_ops[i] = "makedirs scratch",
                          merged    |-> \E i \in 1..Len(dir) :
                                           /\ dir[i].name = OUTPUT_FILE
                                           /\ dir[i].made = "merged"])
    /\ dir' = [i \in 1..Len(dir) |-> AsStale(dir[i])]
    /\ scratch' = LeftBy(scratch)
    /\ list_file' = IF list_file.state = "absent" THEN NoList ELSE StaleList
    /\ pc' = "input"
    /\ choice' = <<>>
    /\ current_encoding_args' = <<>>
    /\ valid_files' = <<>>
    /\ ext_i' = 1
    /\ files' = <<>>
    /\ file_i' = 1
    /\ calls' = <<>>
    /\ attempts' = <<>>
    /\ outcome' = "running"
    /\ merge_ret' = "not called"
    /\ console' = <<>>
    /\ fs_ops' = <<>>
    /\ prompt' = "pending"

\* The clips of the listings run twice: one that is normalized, one whose
\* transcode fails and leaves a partial file, and one that ends main, its
\* probe text being no pair of integers.
RerunClips ==
    {[probe |-> Stdout(Text_1280x720), trans |-> "exit0"],
     [probe |-> Stdout(Text_1280x720), trans |-> "exit1_partial"],
     [probe |-> Stdout(Text_NA), trans |-> "exit1_untouched"]}

RerunListings ==
    {l \in Listings :
        \A i \in 1..Len(l) :
            \/ l[i].name = OUTPUT_FILE
            \/ [probe |-> l[i].probe, trans |-> l[i].trans] \in RerunClips}

InitRerun == Start(RerunListings)

NextRerun == Next \/ Rerun

SpecRerun == InitRerun /\ [][NextRerun]_vars

\* The exit status of the interpreter: 1 after an uncaught exception.
ExitStatus == IF outcome = "raised" THEN 1 ELSE 0

\* ------------------------------------------------- vocabulary of the claims
\* The names main has to attempt: the entries of the listing with one of the
\* recognised extensions, the final output excepted.
CandidateNames ==
    {dir[i].name : i \in {j \in 1..Len(dir) :
        /\ \E e \in 1..Len(VIDEO_EXTS) : MatchesExt(dir[j].name, VIDEO_EXTS[e])
        /\ dir[j].name # OUTPUT_FILE}}

AttemptedNames == {attempts[i].entry.name : i \in 1..Len(attempts)}

ExtPos(name) == CHOOSE e \in 1..Len(VIDEO_EXTS) : MatchesExt(name, VIDEO_EXTS[e])

DirPos(name) == CHOOSE i \in 1..Len(dir) : dir[i].name = name

\* The attempts that returned True, in order.
Successes == SelectSeq(attempts, LAMBDA a : a.result.ret = "True")

SuccessesBefore(i) ==
    Cardinality({j \in 1..(i - 1) : attempts[j].result.ret = "True"})

ConcatCalls == {i \in 1..Len(calls) : calls[i].tool = "ffmpeg -f concat"}

Printed(notice) == \E i \in 1..Len(console) : console[i] = notice

\* The probe of a clip succeeded: ffprobe exited zero and printed one WxH
\* pair of decimal integers.
ProbeWellFormed(probe) ==
    /\ probe.kind = "stdout"
    /\ LET fields == Split(Strip(probe.out), "x")
       IN  /\ Len(fields) = 2
           /\ \A f \in 1..2 :
                 /\ fields[f] # <<>>
                 /\ \A i \in 1..Len(fields[f]) : IsDigit(fields[f][i])

\* ----------------------------------------------------------------- claims
\* C1: whatever per-file error occurs, process_video_file absorbs it as a
\* False result; main attempts every later candidate and reaches the
\* manifest stage; no per-file error ends the run.
C1_PerFileErrorsAbsorbed ==
    /\ \A i \in 1..Len(attempts) : attempts[i].result.ret \in {"True", "False"}
    /\ pc = "done" => AttemptedNames = CandidateNames

\* C2: once all candidates are attempted, the manifest is exactly the lines
\* of the candidates that returned True, in processing order, and the
\* processing order is extension-list order, then enumeration order.
C2_ManifestIsSuccessesInOrder ==
    /\ Len(valid_files) = Len(Successes)
    /\ \A k \in 1..Len(Successes) :
          valid_files[k] = ManifestLine(Successes[k].output_path)
    /\ \A i, j \in 1..Len(attempts) :
          i < j =>
             LET a == attempts[i].entry.name
                 b == attempts[j].entry.name
             IN  \/ ExtPos(a) < ExtPos(b)
                 \/ ExtPos(a) = ExtPos(b) /\ DirPos(a) < DirPos(b)
    /\ (pc = "merge" \/ (pc = "done" /\ outcome = "returned"))
          => AttemptedNames = CandidateNames

\* C2 witness: two clips of one extension, enumerated in the reverse of
\* their name order, both normalized, the manifest about to be merged.
C2_Witness ==
    /\ pc = "merge"
    /\ Len(valid_files) = 2
    /\ attempts[1].entry.name = FileName(<<"b">>, VIDEO_EXTS[1])
    /\ attempts[2].entry.name = FileName(<<"a">>, VIDEO_EXTS[1])

\* C3: get_video_dimensions yields (0, 0) on every probe failure and no
\* error is raised, neither at the call nor when the pair is unpacked.
C3_ProbeFailureYieldsSentinel ==
    \A i \in 1..Len(attempts) :
        ~ProbeWellFormed(attempts[i].entry.probe)
            => /\ attempts[i].result.probed = Sentinel
               /\ attempts[i].result.ret # "ValueError"

\* C4: a non-zero exit of the concatenation ends the run in an outcome its
\* caller can tell from a successful merge (which returns None from
\* merge_videos and lets main return with exit status 0).
C4_ConcatFailureDistinguishable ==
    (pc = "done" /\ Printed("merge failed"))
        => (merge_ret # "None" \/ outcome # "returned" \/ ExitStatus # 0)

\* C5: when no candidate was normalized, main ends normally, writes no list
\* file and never calls merge_videos.
C5_EmptyManifestEndsNormally ==
    (pc = "done" /\ valid_files = <<>>)
        => /\ outcome = "returned"
           /\ list_file.state # "written"
           /\ merge_ret = "not called"
           /\ ConcatCalls = {}

\* C6: the concatenation is invoked at most once, after every candidate has
\* been attempted to completion, and no probe or transcode follows it.
C6_ConcatAfterAllAttempts ==
    /\ Cardinality(ConcatCalls) <= 1
    /\ \A i \in ConcatCalls : i = Len(calls)
    /\ (ConcatCalls # {} \/ pc = "merge")
          => /\ AttemptedNames = CandidateNames
             /\ \A i \in 1..Len(attempts) :
                   attempts[i].result.ret \in {"True", "False"}

\* C6 witness: the concatenation ran after two candidates, one of which
\* failed.
C6_Witness ==
    /\ ConcatCalls # {}
    /\ Len(attempts) = 2
    /\ \E i \in 1..2 : attempts[i].result.ret = "False"

\* C7: the output index of an attempt is the number of earlier successes;
\* the manifest references the indices 0 .. n-1 in order, none twice.
C7_IndexCountsSuccesses ==
    /\ \A i \in 1..Len(attempts) :
          attempts[i].output_path
             = <<TEMP_DIR,
                 temp_name(SuccessesBefore(i))>>
    /\ \A k \in 1..Len(valid_files) :
          valid_files[k].path
             = <<Cwd, TEMP_DIR,
                 temp_name(k - 1)>>
    /\ \A k, m \in 1..Len(valid_files) :
          k # m => valid_files[k].path # valid_files[m].path

\* C7 witness: a failure followed by a success, which takes index 0.
C7_Witness ==
    /\ Len(attempts) = 2
    /\ attempts[1].result.ret = "False"
    /\ attempts[1].result.transcodes = 1
    /\ attempts[2].result.ret = "True"
    /\ Len(valid_files) = 1

\* C8: the transcoder is invoked never when the probe returned the sentinel
\* (a width of 0, which is what line 77 and the data model take for it), and
\* otherwise exactly once; the call returns True exactly when that
\* invocation exited zero, and False otherwise.
C8_TranscodeOnceUnlessSentinel ==
    \A i \in 1..Len(attempts) :
        LET a        == attempts[i]
            sentinel == a.result.ret # "ValueError" /\ a.result.width = 0
        IN  /\ sentinel => a.result.transcodes = 0
            /\ ~sentinel => a.result.transcodes = 1
            /\ a.result.ret \in {"True", "False"}
            /\ a.result.ret = "True"
                  <=> (a.result.transcodes = 1 /\ a.entry.trans = "exit0")

\* C9: a probe result with width 0 or height 0 never reaches the
\* orientation test: the file is reported failed before the filter chain
\* is built and before the transcoder is invoked.
C9_ZeroDimensionNeverPlanned ==
    \A i \in 1..Len(attempts) :
        LET r == attempts[i].result
        IN  (r.ret # "ValueError" /\ (r.width = 0 \/ r.height = 0))
               => /\ ~r.planned
                  /\ r.transcodes = 0
                  /\ r.ret = "False"

\* C10: for every mode string the prompt returns, get_encoding_args returns
\* a parameter list: mode "2" selects the NVENC profile with variable-rate
\* control; every other mode selects exactly the parameters of the software
\* choice "1".
C10_EncodingArgsByMode ==
    prompt = "answered"
       => IF choice = <<"2">>
          THEN /\ current_encoding_args[1] = "-c:v"
               /\ current_encoding_args[2] = "h264_nvenc"
               /\ \E i \in 1..(Len(current_encoding_args) - 1) :
                     /\ current_encoding_args[i] = "-rc"
                     /\ current_encoding_args[i + 1] = "vbr"
          ELSE /\ current_encoding_args = get_encoding_args(<<"1">>)
               /\ current_encoding_args[1] = "-c:v"
               /\ current_encoding_args[2] = "libx264"
               /\ \A i \in 1..Len(current_encoding_args) :
                     current_encoding_args[i] # "h264_nvenc"

\* C10 witness: an unrecognised mode was entered and the software profile
\* was selected.
C10_Witness ==
    /\ prompt = "answered"
    /\ choice = <<"9">>
    /\ current_encoding_args[2] = "libx264"

\* The scale+pad+setsar entry for the configured canvas.
CanvasEntry ==
    <<"scale=">> \o Decimal(TARGET_WIDTH) \o <<":">> \o Decimal(TARGET_HEIGHT)
    \o <<":force_original_aspect_ratio=decrease,", "pad=">>
    \o Decimal(TARGET_WIDTH) \o <<":">> \o Decimal(TARGET_HEIGHT)
    \o <<":(ow-iw)/2:(oh-ih)/2,", "setsar=1">>

RotationEntry == <<"transpose=2">>

\* The attempts that reached filter planning with both dimensions positive.
PlannedAttempts ==
    {i \in 1..Len(attempts) :
        /\ attempts[i].result.planned
        /\ attempts[i].result.width > 0
        /\ attempts[i].result.height > 0}

\* The -vf argument of the transcoder invocation of an attempt.
VfOf(i) ==
    LET inv == attempts[i].result.invoked
    IN  inv[Len(inv)].vf

\* C11: for positive dimensions the chain holds the rotation filter exactly
\* when height > width, and then as its first entry, before scale+pad;
\* landscape and square input get no rotation filter.
C11_RotationIffPortrait ==
    \A i \in PlannedAttempts :
        LET r == attempts[i].result
        IN  /\ r.height > r.width
               => /\ Len(r.filters) >= 2
                  /\ r.filters[1] = RotationEntry
                  /\ Head(r.filters[2]) = "scale="
                  /\ \A k \in 2..Len(r.filters) : r.filters[k] # RotationEntry
                  /\ Head(VfOf(i)) = "transpose=2"
            /\ r.height <= r.width
               => /\ \A k \in 1..Len(r.filters) : r.filters[k] # RotationEntry
                  /\ \A k \in 1..Len(VfOf(i)) : VfOf(i)[k] # "transpose=2"

\* C11 witness: a portrait clip was planned and transcoded.
C11_Witness ==
    \E i \in PlannedAttempts :
        /\ attempts[i].result.width = 1080
        /\ attempts[i].result.height = 1920
        /\ attempts[i].result.filters[1] = RotationEntry
        /\ attempts[i].result.ret = "True"

\* C12: for positive dimensions the chain ends with exactly one
\* scale+pad+setsar entry for TARGET_WIDTH x TARGET_HEIGHT; its length is 1
\* for landscape input and 2 for portrait input.
C12_ChainEndsWithCanvasEntry ==
    \A i \in PlannedAttempts :
        LET r == attempts[i].result
        IN  /\ r.filters # <<>>
            /\ r.filters[Len(r.filters)] = CanvasEntry
            /\ Cardinality({k \in 1..Len(r.filters) :
                               Head(r.filters[k]) = "scale="}) = 1
            /\ Len(r.filters) = IF r.height > r.width THEN 2 ELSE 1
            /\ Cardinality({k \in 1..Len(VfOf(i)) : VfOf(i)[k] = "scale="}) = 1

\* C12 witness: a clip already at the canvas size went through scale+pad.
C12_Witness ==
    \E i \in PlannedAttempts :
        /\ attempts[i].result.width = TARGET_WIDTH
        /\ attempts[i].result.height = TARGET_HEIGHT
        /\ attempts[i].result.filters = <<CanvasEntry>>
        /\ attempts[i].result.ret = "True"

\* The scratch file a path of the manifest points at, if there is one.
ScratchAt(path) ==
    {f \in scratch.files : path = <<Cwd, TEMP_DIR, f.name>>}

StaleOutput(listing) ==
    \E i \in 1..Len(listing) :
        listing[i].name = OUTPUT_FILE /\ listing[i].made = "stale"

Logged(op) == \E i \in 1..Len(fs_ops) : fs_ops[i] = op

\* C13: every run replaces the scratch directory at its start, before any
\* candidate is processed: once the run is past its start the directory
\* holds nothing of an earlier run, and every manifest line references a
\* file written by a zero-exit transcode of this run.
C13_ScratchReplacedFirst ==
    /\ (attempts # <<>> \/ pc \notin {"input", "reset"})
          => /\ scratch.exists
             /\ Logged("makedirs scratch")
             /\ \A f \in scratch.files : f.state # "stale"
             /\ list_file.state # "stale"
    /\ \A k \in 1..Len(valid_files) :
          /\ ScratchAt(valid_files[k].path) # {}
          /\ \A f \in ScratchAt(valid_files[k].path) :
                /\ f.state = "complete"
                /\ \E i \in 1..Len(attempts) :
                      /\ attempts[i].result.ret = "True"
                      /\ attempts[i].entry.name = f.src

\* C15: no candidate is the final output: a file at the final output path is
\* never probed, never transcoded and never the source of a manifest line.
C15_OutputNeverCandidate ==
    /\ \A i \in 1..Len(files) : files[i].name # OUTPUT_FILE
    /\ \A i \in 1..Len(attempts) : attempts[i].entry.name # OUTPUT_FILE
    /\ \A i \in 1..Len(calls) :
          calls[i].tool \in {"ffprobe", "ffmpeg"}
             => Abspath(calls[i].input) # <<Cwd, OUTPUT_FILE>>
    /\ \A f \in scratch.files : f.src # OUTPUT_FILE

\* C15 witness: a merged file of an earlier run lies in the scan root while
\* a clip of the same extension has been normalized.
C15_Witness ==
    /\ StaleOutput(dir)
    /\ pc = "merge"
    /\ \E i \in 1..Len(attempts) :
          /\ MatchesExt(attempts[i].entry.name, VIDEO_EXTS[1])
          /\ attempts[i].result.ret = "True"

\* C16, as claimed: a partial file left by a failed transcode stays in place
\* until the end of the run, and the manifest never references its path.
C16_PartialLeftInPlace ==
    [][/\ \A f \in scratch.files : f.state = "partial" => f \in scratch'.files
       /\ \A f \in scratch.files :
             f.state = "partial"
                => \A k \in 1..Len(valid_files') :
                      valid_files'[k].path # <<Cwd, TEMP_DIR, f.name>>]_vars

\* C16, amended: a partial file left by a failed transcode stays in place
\* until the transcoder of a later candidate writes the same output path
\* (the index has not advanced, and ffmpeg runs with -y), or else until the
\* end of the run; the manifest never references a path while the file
\* there is partial.
C16_PartialKeptUntilOverwritten ==
    [][/\ \A f \in scratch.files :
             f.state = "partial"
                => \/ f \in scratch'.files
                   \/ /\ pc = "files"
                      /\ Len(attempts') = Len(attempts) + 1
                      /\ LET a == attempts'[Len(attempts')]
                         IN  /\ Basename(a.output_path) = f.name
                             /\ a.result.transcodes = 1
                             /\ a.result.wrote # "nothing"
       /\ \A k \in 1..Len(valid_files') :
             \A f \in scratch'.files :
                valid_files'[k].path = <<Cwd, TEMP_DIR, f.name>>
                   => f.state = "complete"]_vars

\* C16 witness: the partial output of a failed candidate was overwritten by
\* the output of the next candidate, which the manifest references.
C16_Witness ==
    /\ Len(attempts) = 2
    /\ attempts[1].result.wrote = "partial"
    /\ attempts[2].result.wrote = "complete"
    /\ attempts[1].output_path = attempts[2].output_path
    /\ Len(valid_files) = 1
    /\ \A f \in scratch.files : f.state = "complete"

\* C17: a path the manifest references is never again the output of a
\* transcoder invocation: the file there is the one the successful transcode
\* of the entry's candidate wrote, until the concatenation has read it.
C17_ManifestPathsNotReused ==
    /\ Len(valid_files) = Len(Successes)
    /\ \A k \in 1..Len(Successes) :
          /\ valid_files[k].path = <<Cwd>> \o Successes[k].output_path
          /\ \E f \in scratch.files :
                /\ f.name = Basename(Successes[k].output_path)
                /\ f.src = Successes[k].entry.name
                /\ f.state = "complete"
    /\ \A i, j \in 1..Len(attempts) :
          (i < j /\ attempts[i].result.ret = "True")
             => attempts[j].output_path # attempts[i].output_path

\* C17 witness: two candidates were normalized and the concatenation ran.
C17_Witness ==
    /\ Len(Successes) = 2
    /\ ConcatCalls # {}
    /\ pc = "done"

\* C18: when the concatenation is invoked the list file holds the whole,
\* non-empty manifest and a final output of an earlier run is gone; that
\* file is deleted only by a run that reaches the concatenation, and a run
\* with an empty manifest leaves the listing as it was.
C18_ListWrittenOutputDeletedFirst ==
    [][/\ ConcatCalls' # {}
             => /\ list_file'.state = "written"
                /\ list_file'.lines = valid_files'
                /\ valid_files' # <<>>
                /\ Logged("write list")'
                /\ ~StaleOutput(dir')
       /\ (StaleOutput(dir) /\ ~StaleOutput(dir'))
             => /\ pc = "merge"
                /\ valid_files # <<>>
                /\ list_file.state = "written"
                /\ merge_ret' # "not called"
       /\ (pc' = "done" /\ valid_files' = <<>>) => dir' = dir]_vars

\* C18 witness: a final output of an earlier run was deleted and the
\* concatenation was invoked on the written list.
C18_Witness ==
    /\ ConcatCalls # {}
    /\ Logged("remove output")
    /\ list_file.state = "written"
    /\ ~StaleOutput(dir)

\* The clips whose outputs the manifest references, in manifest order.
ManifestSources ==
    [k \in 1..Len(valid_files) |->
        (CHOOSE f \in scratch.files :
            valid_files[k].path = <<Cwd, TEMP_DIR, f.name>>).src]

\* C14: when two runs over the same clips with the same tool outcomes have
\* each reset the scratch directory, the second ends with a manifest as long
\* as the first run's, whose entries come from the same clips in the same
\* order.
C14_RerunSameManifest ==
    (/\ pc = "done"
     /\ earlier # <<>>
     /\ earlier[Len(earlier)].reset
     /\ Logged("makedirs scratch"))
        => LET first == earlier[Len(earlier)]
           IN  /\ Len(valid_files) = Len(first.manifest)
               /\ \A k \in 1..Len(valid_files) :
                     ManifestSources[k] = first.successes[k].src

\* C14 witness: the second run ended with two manifest lines while the
\* merged output of the first run lay in the scan root.
C14_Witness ==
    /\ pc = "done"
    /\ earlier # <<>>
    /\ earlier[1].reset
    /\ earlier[1].merged
    /\ Logged("makedirs scratch")
    /\ Len(valid_files) = 2
    /\ Logged("remove output")

====
